---- MODULE Spec2Model ----
(***************************************************************************)
(* Grading Analysis Dashboard: loader, derivation, filter and metrics      *)
(* services (src/src/services) and the Streamlit session that drives them  *)
(* (src/main.py, src/src/ui).                                              *)
(*                                                                         *)
(* Number representation (pandas float64 columns are modelled as scaled    *)
(* integers, so that every comparison of the code is exact):               *)
(*   ta_score, llm_score, max_points, error, abs_error : tenths of a point *)
(*   confidence                                        : hundredths        *)
(*   percent_error                     : hundredths of a percent, or the   *)
(*                                       IEEE values NaN / PosInf          *)
(* Aggregates that are quotients (means, variances, correlations) are kept *)
(* as [num, den] pairs; den = 0 is the IEEE NaN of an empty mean.          *)
(***************************************************************************)
EXTENDS Integers, Sequences, FiniteSets, TLC

VARIABLES
    uploaded_file,      \* the st.file_uploader widget: NoFile or a file
    data,               \* st.session_state.data
    processed_data,     \* st.session_state.processed_data
    filters,            \* st.session_state.filters
    question_filter,    \* widget state, key 'question_filter'
    confidence_filter,  \* widget state, key 'confidence_filter'
    error_filter,       \* widget state, key 'error_filter'
    view,               \* df handed to the tabs by render_app
    metrics,            \* metrics handed to the tabs by render_app
    error_msg,          \* what st.error showed in the last load_data call
    pc                  \* position of the script / pipeline

vars == <<uploaded_file, data, processed_data, filters, question_filter,
          confidence_filter, error_filter, view, metrics, error_msg, pc>>

----------------------------------------------------------------------------
(* Bounds of the model *)

\* longest table (number of rows) of the pipeline specification
MaxRows == 3
\* longest table that the session specification uploads
MaxSessionRows == 2

----------------------------------------------------------------------------
(* src/src/config.py *)

\* 0.6, in hundredths
CONFIDENCE_THRESHOLD == 60
\* 25 percent, in hundredths of a percent
PERCENT_ERROR_THRESHOLD == 2500
\* 0.3, in tenths: abs_error > max_points * 0.3  <=>  abs_error * 10 > max_points * 3
ABS_ERROR_FACTOR == 3

----------------------------------------------------------------------------
(* IEEE-754 values of a division by zero, as percent_error can hold them *)

\* 0 / 0
NaN == -1
\* x / 0 for x > 0
PosInf == 1000000000

\* x <= y, x < y, x > y of floats: every comparison with NaN is False
FLe(x, y) == x # NaN /\ y # NaN /\ x <= y
FGt(x, y) == x # NaN /\ y # NaN /\ x > y

Abs(x) == IF x < 0 THEN -x ELSE x

\* truncation of n / d to an integer: the digits after the second decimal cut off
RoundDown(n, d) == n \div d

\* round-half-to-even of n / d (d > 0, n >= 0), as Series.round does
RoundHalfEven(n, d) ==
    LET q == n \div d
        r == n % d
    IN  IF 2 * r < d THEN q
        ELSE IF 2 * r > d THEN q + 1
        ELSE IF q % 2 = 0 THEN q ELSE q + 1

----------------------------------------------------------------------------
(* Tables *)

REQUIRED_COLS == <<"student_id", "question_id", "ta_score", "llm_score", "max_points">>

OptionalCols == {"confidence", "flags"}

Range(s) == {s[i] : i \in DOMAIN s}

AllCols == Range(REQUIRED_COLS) \cup OptionalCols

\* a DataFrame is a sequence of rows (records); None is the absent DataFrame
None == [none |-> TRUE, rows |-> <<>>]
Frame(rows) == [none |-> FALSE, rows |-> rows]

\* a grading row
Row(sid, qid, ta, llm, mx, conf, fl) ==
    [student_id |-> sid, question_id |-> qid, ta_score |-> ta, llm_score |-> llm,
     max_points |-> mx, confidence |-> conf, flags |-> fl]

\* the row as a CSV with the columns cols holds it
Project(r, cols) == [c \in cols |-> r[c]]

\* an uploaded CSV file: whether pd.read_csv can parse it, its header, its rows
File(readable, cols, rows) ==
    [isfile |-> TRUE, readable |-> readable, columns |-> cols,
     rows |-> [i \in DOMAIN rows |-> Project(rows[i], cols)]]

\* the file uploader with no file in it
NoFile == [isfile |-> FALSE, readable |-> FALSE, columns |-> {}, rows |-> <<>>]

----------------------------------------------------------------------------
(* src/src/services/data_service.py *)

NoError == [kind |-> "none", missing |-> <<>>]

\* a loader that reports only the first missing column
MissingColsFirstOnly(file) ==
    LET missing == SelectSeq(REQUIRED_COLS, LAMBDA c : c \notin file.columns)
    IN  IF missing = <<>> THEN <<>> ELSE <<Head(missing)>>

\* missing = [c for c in REQUIRED_COLS if c not in df.columns]
MissingCols(file) == SelectSeq(REQUIRED_COLS, LAMBDA c : c \notin file.columns)

\* a loader that assigns the defaults whether or not the column is there
FillDefaultsAlways(r, cols) ==
    [c \in DOMAIN r \cup OptionalCols |->
        IF c = "confidence" THEN 100 ELSE IF c = "flags" THEN FALSE ELSE r[c]]

\* df['confidence'] = 1.0 and df['flags'] = False, each only when the column
\* is not in df.columns
FillDefaults(r, cols) ==
    LET withConf == IF "confidence" \notin cols THEN r @@ [confidence |-> 100] ELSE r
    IN  IF "flags" \notin cols THEN withConf @@ [flags |-> FALSE] ELSE withConf

\* load_data: the DataFrame returned (None on failure) and the st.error message
load_data(file) ==
    IF ~file.readable
    THEN [df |-> None, error |-> [kind |-> "Error loading file", missing |-> <<>>]]
    ELSE
      LET missing == MissingCols(file)
      IN  IF missing # <<>>
          THEN [df |-> None,
                error |-> [kind |-> "Missing required columns", missing |-> missing]]
          ELSE [df |-> Frame([i \in DOMAIN file.rows |-> FillDefaults(file.rows[i], file.columns)]),
                error |-> NoError]

\* (abs_error / max_points * 100).round(2)
PercentError(abs_error, max_points) ==
    IF max_points = 0
    THEN (IF abs_error = 0 THEN NaN ELSE PosInf)
    ELSE RoundHalfEven(abs_error * 10000, max_points)

\* ta_score / max_points and llm_score / max_points, unrounded
Normalized(score, max_points) == [num |-> score, den |-> max_points]

\* a flag policy that also flags the values on the thresholds
AutoFlagInclusive(confidence, percent_error, abs_error, max_points) ==
    \/ confidence <= CONFIDENCE_THRESHOLD
    \/ percent_error # NaN /\ percent_error >= PERCENT_ERROR_THRESHOLD
    \/ abs_error * 10 >= max_points * ABS_ERROR_FACTOR

\* a flag policy that takes percentages above 100 for input errors
AutoFlagCapped(confidence, percent_error, abs_error, max_points) ==
    \/ confidence < CONFIDENCE_THRESHOLD
    \/ /\ FGt(percent_error, PERCENT_ERROR_THRESHOLD)
       /\ FLe(percent_error, 10000)

\* a flag policy whose third test is not scaled by max_points
\* (abs_error > ABS_ERROR_FACTOR)
AutoFlagUnscaled(confidence, percent_error, abs_error, max_points) ==
    \/ confidence < CONFIDENCE_THRESHOLD
    \/ FGt(percent_error, PERCENT_ERROR_THRESHOLD)
    \/ abs_error > ABS_ERROR_FACTOR

\* the auto_flag expression of process_data
AutoFlag(confidence, percent_error, abs_error, max_points) ==
    \/ confidence < CONFIDENCE_THRESHOLD
    \/ FGt(percent_error, PERCENT_ERROR_THRESHOLD)
    \/ abs_error * 10 > max_points * ABS_ERROR_FACTOR

\* a derivation that also flags the rows with the manual flag set
DeriveRowWithManualFlag(r) ==
    LET error == r.llm_score - r.ta_score
        abs_error == Abs(error)
        percent_error == PercentError(abs_error, r.max_points)
    IN  r @@ [error |-> error,
              abs_error |-> abs_error,
              percent_error |-> percent_error,
              normalized_ta |-> Normalized(r.ta_score, r.max_points),
              normalized_llm |-> Normalized(r.llm_score, r.max_points),
              auto_flag |-> \/ AutoFlag(r.confidence, percent_error, abs_error, r.max_points)
                            \/ r.flags]

\* the columns process_data adds to one row
DeriveRow(r) ==
    LET error == r.llm_score - r.ta_score
        abs_error == Abs(error)
        percent_error == PercentError(abs_error, r.max_points)
    IN  r @@ [error |-> error,
              abs_error |-> abs_error,
              percent_error |-> percent_error,
              normalized_ta |-> Normalized(r.ta_score, r.max_points),
              normalized_llm |-> Normalized(r.llm_score, r.max_points),
              auto_flag |-> AutoFlag(r.confidence, percent_error, abs_error, r.max_points)]

\* a derivation that assigns the columns to the caller's DataFrame (no copy)
process_data_inplace(df) ==
    [arg |-> Frame([i \in DOMAIN df.rows |-> DeriveRow(df.rows[i])]),
     ret |-> Frame([i \in DOMAIN df.rows |-> DeriveRow(df.rows[i])])]

\* process_data: ret is the DataFrame returned, arg is the caller's DataFrame
\* as the call leaves it (df.copy() is taken before any column is assigned)
process_data(df) ==
    [arg |-> df,
     ret |-> Frame([i \in DOMAIN df.rows |-> DeriveRow(df.rows[i])])]

\* the filters dict
FilterState(qs, ss, cr, et) ==
    [questions |-> qs, students |-> ss, confidence_range |-> cr, error_threshold |-> et]

\* the four row selections of apply_filters
KeepQuestion(r, f) == f.questions = {} \/ r.question_id \in f.questions
KeepStudent(r, f) == f.students = {} \/ r.student_id \in f.students
KeepConfidenceExclusive(r, f) ==
    r.confidence > f.confidence_range[1] /\ r.confidence < f.confidence_range[2]
KeepConfidence(r, f) ==
    r.confidence >= f.confidence_range[1] /\ r.confidence <= f.confidence_range[2]
KeepErrorIgnoringNaN(r, f) ==
    r.percent_error = NaN \/ r.percent_error <= f.error_threshold * 100
KeepError(r, f) == FLe(r.percent_error, f.error_threshold * 100)

\* a selection step that is skipped when it would leave no row
FilterStepSkippedIfEmpty(k, rows, f) ==
    LET out == IF k = 1 THEN SelectSeq(rows, LAMBDA r : KeepQuestion(r, f))
               ELSE IF k = 2 THEN SelectSeq(rows, LAMBDA r : KeepStudent(r, f))
               ELSE IF k = 3 THEN SelectSeq(rows, LAMBDA r : KeepConfidence(r, f))
               ELSE SelectSeq(rows, LAMBDA r : KeepError(r, f))
    IN  IF out = <<>> THEN rows ELSE out

\* the k-th selection of apply_filters on the rows the steps before it left:
\* 1 questions, 2 students, 3 confidence_range, 4 error_threshold
FilterStep(k, rows, f) ==
    IF k = 1 THEN SelectSeq(rows, LAMBDA r : KeepQuestion(r, f))
    ELSE IF k = 2 THEN SelectSeq(rows, LAMBDA r : KeepStudent(r, f))
    ELSE IF k = 3 THEN SelectSeq(rows, LAMBDA r : KeepConfidence(r, f))
    ELSE SelectSeq(rows, LAMBDA r : KeepError(r, f))

\* the four selections applied in the order given
RECURSIVE FilterSteps(_, _, _)
FilterSteps(order, rows, f) ==
    IF order = <<>> THEN rows
    ELSE FilterSteps(Tail(order), FilterStep(Head(order), rows, f), f)

\* a filter that drops the rows from the caller's DataFrame (no copy)
apply_filters_inplace(df, f) ==
    LET keep(r) == KeepQuestion(r, f) /\ KeepStudent(r, f)
                   /\ KeepConfidence(r, f) /\ KeepError(r, f)
    IN  [arg |-> Frame(SelectSeq(df.rows, keep)),
         ret |-> Frame(SelectSeq(df.rows, keep))]

\* apply_filters: ret is the DataFrame returned, arg is the caller's DataFrame
\* as the call leaves it (out = df.copy(); every selection rebinds out)
apply_filters(df, f) ==
    LET out1 == SelectSeq(df.rows, LAMBDA r : KeepQuestion(r, f))
        out2 == SelectSeq(out1, LAMBDA r : KeepStudent(r, f))
        out3 == SelectSeq(out2, LAMBDA r : KeepConfidence(r, f))
        out4 == SelectSeq(out3, LAMBDA r : KeepError(r, f))
    IN  [arg |-> df, ret |-> Frame(out4)]

-----------------------------------------------------------------------------
(* src/app.py, the single-file entry point: its own process_data and        *)
(* apply_filters, with the thresholds written as literals                    *)

\* an auto-flag expression with the confidence literal of the sample
\* generator (0.5) in place of 0.6
legacy_auto_flag_half(confidence, percent_error, abs_error, max_points) ==
    \/ confidence < 50
    \/ FGt(percent_error, 2500)
    \/ abs_error * 10 > max_points * 3

\* (confidence < 0.6) | (percent_error > 25) | (abs_error > max_points * 0.3)
legacy_auto_flag(confidence, percent_error, abs_error, max_points) ==
    \/ confidence < 60
    \/ FGt(percent_error, 2500)
    \/ abs_error * 10 > max_points * 3

\* process_data of app.py: df.copy(), then the six assigned columns
legacy_process_data(df) ==
    [arg |-> df,
     ret |-> Frame([i \in DOMAIN df.rows |->
                LET r == df.rows[i]
                    error == r.llm_score - r.ta_score
                    abs_error == IF error < 0 THEN -error ELSE error
                    percent_error ==
                        IF r.max_points = 0
                        THEN (IF abs_error = 0 THEN NaN ELSE PosInf)
                        ELSE RoundHalfEven(abs_error * 10000, r.max_points)
                IN  r @@ [error |-> error,
                          abs_error |-> abs_error,
                          percent_error |-> percent_error,
                          normalized_ta |-> [num |-> r.ta_score, den |-> r.max_points],
                          normalized_llm |-> [num |-> r.llm_score, den |-> r.max_points],
                          auto_flag |-> legacy_auto_flag(r.confidence, percent_error,
                                                         abs_error, r.max_points)]])]

\* apply_filters of app.py: filtered_df = df.copy(); the question and student
\* selections run when their list is not empty, the other two always
legacy_apply_filters(df, f) ==
    LET d0 == df.rows
        d1 == IF f.questions # {}
              THEN SelectSeq(d0, LAMBDA r : r.question_id \in f.questions)
              ELSE d0
        d2 == IF f.students # {}
              THEN SelectSeq(d1, LAMBDA r : r.student_id \in f.students)
              ELSE d1
        d3 == SelectSeq(d2, LAMBDA r : /\ r.confidence >= f.confidence_range[1]
                                       /\ r.confidence <= f.confidence_range[2])
        d4 == SelectSeq(d3, LAMBDA r : FLe(r.percent_error, f.error_threshold * 100))
    IN  [arg |-> df, ret |-> Frame(d4)]

----------------------------------------------------------------------------
(* src/src/services/analytics_service.py *)

\* a column of a DataFrame, in row order
Column(df, name) == [i \in DOMAIN df.rows |-> df.rows[i][name]]

RECURSIVE Sum(_)
Sum(s) == IF s = <<>> THEN 0 ELSE Head(s) + Sum(Tail(s))

\* elementwise product of two columns
Times(x, y) == [i \in DOMAIN x |-> x[i] * y[i]]

\* a count of the values instead of the distinct values
NUniqueAsCount(s) == Len(s)

\* Series.nunique()
NUnique(s) == Cardinality(Range(s))

\* a float result as a quotient; den = 0 is NaN (the mean of nothing)
Quot(num, den) == [num |-> num, den |-> den]

\* np.mean of a column
Mean(s) == Quot(Sum(s), Len(s))

\* Series.max(): NaN on an empty column
Max(s) ==
    IF s = <<>> THEN Quot(0, 0)
    ELSE Quot(CHOOSE v \in Range(s) : \A w \in Range(s) : w <= v, 1)

\* np.std (population): (n * sum(e^2) - sum(e)^2) / n^2 is the variance
Std(s) == Quot(Len(s) * Sum(Times(s, s)) - Sum(s) * Sum(s), Len(s) * Len(s))

\* np.mean(np.abs(error / (ta_score + 1e-10))) * 100: the terms of the mean
Mape(df) ==
    [terms |-> [i \in DOMAIN df.rows |->
                   Quot(df.rows[i].abs_error, df.rows[i].ta_score)],
     den |-> Len(df.rows)]

NaNCorr == [nan |-> TRUE, cov |-> 0, varx |-> 0, vary |-> 0, n |-> 0]

\* what the correlation coefficient and its p-value are computed from:
\* r = cov / sqrt(varx * vary), p = f(r, n)
CorrStat(x, y) ==
    LET n == Len(x)
    IN  [nan |-> FALSE,
         cov |-> n * Sum(Times(x, y)) - Sum(x) * Sum(y),
         varx |-> n * Sum(Times(x, x)) - Sum(x) * Sum(x),
         vary |-> n * Sum(Times(y, y)) - Sum(y) * Sum(y),
         n |-> n]

\* scipy.stats.pearsonr: ValueError when the inputs have fewer than 2 elements
pearsonr(x, y) ==
    IF Len(x) < 2
    THEN [raised |-> TRUE, stat |-> NaNCorr]
    ELSE [raised |-> FALSE, stat |-> CorrStat(x, y)]

\* twice the average rank of every element (scipy.stats.rankdata, 'average')
Rank2(x) ==
    [i \in DOMAIN x |->
        2 * Cardinality({j \in DOMAIN x : x[j] < x[i]})
          + Cardinality({j \in DOMAIN x : x[j] = x[i]}) + 1]

\* scipy.stats.spearmanr: Pearson's statistic of the ranks
spearmanr(x, y) ==
    IF Len(x) < 2
    THEN [raised |-> FALSE, stat |-> NaNCorr]
    ELSE [raised |-> FALSE, stat |-> CorrStat(Rank2(x), Rank2(y))]

\* a guard that forgets the llm_score column
CorrelationDefinedTaOnly(df) ==
    /\ Len(df.rows) >= 2
    /\ NUnique(Column(df, "ta_score")) > 1

\* no guard at all (the legacy calculate_metrics of app.py)
CorrelationUnguarded(df) == TRUE

\* the condition under which calculate_metrics calls pearsonr and spearmanr
CorrelationDefined(df) ==
    /\ Len(df.rows) >= 2
    /\ NUnique(Column(df, "ta_score")) > 1
    /\ NUnique(Column(df, "llm_score")) > 1

\* the denominator without the max(..., 1) guard
FlaggedDenUnguarded(total_items) == total_items

\* max(m['total_items'], 1)
FlaggedDen(total_items) == IF total_items > 1 THEN total_items ELSE 1

NoMetrics == [none |-> TRUE]

\* the rows of one question, in row order (df.groupby('question_id'))
QuestionGroup(df, q) == Frame(SelectSeq(df.rows, LAMBDA r : r.question_id = q))

\* metrics['question_performance'] of the legacy calculate_metrics of app.py:
\* groupby('question_id').agg(abs_error mean, confidence mean, auto_flag sum)
\* .to_dict(); the calculate_metrics of analytics_service.py has no such key
question_performance(df) ==
    LET qs == Range(Column(df, "question_id"))
    IN  [abs_error |-> [q \in qs |-> Mean(Column(QuestionGroup(df, q), "abs_error"))],
         confidence |-> [q \in qs |-> Mean(Column(QuestionGroup(df, q), "confidence"))],
         auto_flag |-> [q \in qs |->
                          Cardinality({i \in DOMAIN df.rows :
                                          df.rows[i].question_id = q /\ df.rows[i].auto_flag})]]

\* calculate_metrics: the dict m; raised tells that a call inside it raised
calculate_metrics(df) ==
    LET ta == Column(df, "ta_score")
        llm == Column(df, "llm_score")
        err == Column(df, "error")
        total_items == Len(df.rows)
        defined == CorrelationDefined(df)
        pr == IF defined THEN pearsonr(ta, llm) ELSE [raised |-> FALSE, stat |-> NaNCorr]
        sr == IF defined THEN spearmanr(ta, llm) ELSE [raised |-> FALSE, stat |-> NaNCorr]
        flagged_count == Cardinality({i \in DOMAIN df.rows : df.rows[i].auto_flag})
    IN  [none |-> FALSE,
         raised |-> pr.raised \/ sr.raised,
         total_items |-> total_items,
         total_students |-> NUnique(Column(df, "student_id")),
         total_questions |-> NUnique(Column(df, "question_id")),
         mae |-> Mean(Column(df, "abs_error")),
         rmse |-> Mean(Times(err, err)),   \* the mean under np.sqrt
         mape |-> Mape(df),
         max_error |-> Max(Column(df, "abs_error")),
         pearson_r |-> pr.stat,
         pearson_p |-> pr.stat,
         spearman_r |-> sr.stat,
         spearman_p |-> sr.stat,
         mean_bias |-> Mean(err),
         std_error |-> Std(err),
         flagged_count |-> flagged_count,
         flagged_percent |-> Quot(flagged_count * 100, FlaggedDen(total_items))]

----------------------------------------------------------------------------
(* src/src/ui/tabs/review_queue.py *)

\* the sequence without its k-th element
RemoveAt(s, k) == [i \in 1..(Len(s) - 1) |-> IF i < k THEN s[i] ELSE s[i + 1]]

\* sort_values('abs_error', ascending=False); rows of equal abs_error keep
\* their order (tables this short are sorted by insertion)
RECURSIVE SortByAbsErrorDesc(_)
SortByAbsErrorDesc(rows) ==
    IF rows = <<>> THEN <<>>
    ELSE LET k == CHOOSE i \in DOMAIN rows :
                    /\ \A j \in DOMAIN rows : rows[j].abs_error <= rows[i].abs_error
                    /\ \A j \in 1..(i - 1) : rows[j].abs_error < rows[i].abs_error
         IN  <<rows[k]>> \o SortByAbsErrorDesc(RemoveAt(rows, k))

\* flagged_df of render_review_queue: the table of the Review Queue tab
review_queue(df) ==
    Frame(SortByAbsErrorDesc(SelectSeq(df.rows, LAMBDA r : r.auto_flag)))

----------------------------------------------------------------------------
(* Inputs *)

Students == {"S001", "S002"}
Questions == {"Q1", "Q2"}

\* <<ta_score, llm_score, max_points>> in tenths: agreement, the 25 % and the
\* 0.3 * max_points thresholds, a rounded percentage, more than 100 %, and
\* max_points = 0 (not validated by load_data)
ScoreTriples ==
    { <<80, 80, 100>>, <<80, 55, 100>>, <<80, 54, 100>>, <<80, 50, 100>>,
      <<10, 20, 30>>, <<10, 30, 30>>, <<50, 160, 100>>, <<0, 0, 0>>, <<0, 10, 0>> }

\* confidence in hundredths: below, on and above the threshold, and out of
\* the expected range (not validated by load_data)
Confidences == {50, 60, 100, 120}

\* every row the pipeline is run on as a one-row table
RichRows ==
    { Row(sid, qid, t[1], t[2], t[3], c, fl) :
        sid \in Students, qid \in Questions, t \in ScoreTriples,
        c \in Confidences, fl \in BOOLEAN }

\* the rows of the longer tables
BaseRows ==
    { Row("S001", "Q1", 80, 80, 100, 100, FALSE),
      Row("S002", "Q1", 80, 50, 100, 50, FALSE),
      Row("S001", "Q2", 50, 160, 100, 100, TRUE),
      Row("S002", "Q2", 10, 20, 30, 60, FALSE),
      Row("S002", "Q1", 0, 0, 0, 120, TRUE),
      Row("S001", "Q1", 50, 50, 100, 60, FALSE) }

SeqsUpTo(S, n) == UNION { [1..k -> S] : k \in 0..n }

PipelineTables == { <<r>> : r \in RichRows } \cup SeqsUpTo(BaseRows, MaxRows)

Unreadable == File(FALSE, {}, <<>>)

\* complete files, files with any header that lacks a column, an unparsable file
PipelineFiles ==
    { File(TRUE, AllCols, t) : t \in PipelineTables }
    \cup { File(TRUE, cols, <<Row("S002", "Q1", 80, 50, 100, 50, TRUE)>>) :
             cols \in (SUBSET AllCols) \ {AllCols} }
    \cup { Unreadable }

ConfidenceRanges == { <<0, 100>>, <<60, 100>>, <<0, 55>> }
ErrorThresholds == {100, 25, 0}

PipelineFilters ==
    { FilterState(qs, ss, cr, et) :
        qs \in SUBSET Questions, ss \in SUBSET Students,
        cr \in ConfidenceRanges, et \in ErrorThresholds }

\* the filters dict main.py passes to ensure_state
DefaultFilters == FilterState({}, {}, <<0, 100>>, 100)

----------------------------------------------------------------------------
(* The pipeline load_data -> process_data -> apply_filters ->              *)
(* calculate_metrics on one input file and one filter state                *)

PipelineInit ==
    /\ uploaded_file \in PipelineFiles
    /\ data = None
    /\ processed_data = None
    /\ filters = DefaultFilters
    /\ question_filter = {}
    /\ confidence_filter = <<0, 100>>
    /\ error_filter = 100
    /\ view = None
    /\ metrics = NoMetrics
    /\ error_msg = NoError
    /\ pc = "start"

Load ==
    /\ pc = "start"
    /\ LET ld == load_data(uploaded_file)
       IN  /\ data' = ld.df
           /\ error_msg' = ld.error
           /\ pc' = IF ld.df.none THEN "failed" ELSE "loaded"
    /\ UNCHANGED <<uploaded_file, processed_data, filters, question_filter,
                   confidence_filter, error_filter, view, metrics>>

Derive ==
    /\ pc = "loaded"
    /\ LET pd == process_data(data)
       IN  /\ data' = pd.arg
           /\ processed_data' = pd.ret
    /\ pc' = "derived"
    /\ UNCHANGED <<uploaded_file, filters, question_filter, confidence_filter,
                   error_filter, view, metrics, error_msg>>

Filter(f) ==
    /\ pc = "derived"
    /\ filters' = f
    /\ LET af == apply_filters(processed_data, f)
       IN  /\ processed_data' = af.arg
           /\ view' = af.ret
    /\ pc' = "filtered"
    /\ UNCHANGED <<uploaded_file, data, question_filter, confidence_filter,
                   error_filter, metrics, error_msg>>

Summarize ==
    /\ pc = "filtered"
    /\ metrics' = calculate_metrics(view)
    /\ pc' = "summarized"
    /\ UNCHANGED <<uploaded_file, data, processed_data, filters, question_filter,
                   confidence_filter, error_filter, view, error_msg>>

PipelineNext ==
    \/ Load
    \/ Derive
    \/ \E f \in PipelineFilters : Filter(f)
    \/ Summarize

PipelineSpec == PipelineInit /\ [][PipelineNext]_vars

----------------------------------------------------------------------------
(* The Streamlit session: src/main.py is run from the top on every user    *)
(* interaction, with the widget values of that interaction                 *)

\* the rows of the tables a user uploads in the session
SessionRows ==
    { Row("S001", "Q1", 80, 80, 100, 100, FALSE),
      Row("S002", "Q1", 80, 50, 100, 50, FALSE),
      Row("S001", "Q2", 50, 160, 100, 100, TRUE) }

\* complete files, a file without the optional columns, files that fail to load
SessionFiles ==
    { File(TRUE, AllCols, t) : t \in SeqsUpTo(SessionRows, MaxSessionRows) }
    \cup { File(TRUE, Range(REQUIRED_COLS), <<Row("S002", "Q1", 80, 50, 100, 50, TRUE)>>),
           File(TRUE, AllCols \ {"ta_score"}, <<Row("S001", "Q1", 80, 80, 100, 100, FALSE)>>),
           File(TRUE, {"ta_score", "llm_score", "confidence"},
                <<Row("S001", "Q1", 80, 80, 100, 100, FALSE)>>),
           Unreadable }

\* the table "Generate Sample Data" builds (seeded generator, 30 x 6 rows in
\* the code): rows that satisfy its construction, max_points 10 for Q1..Q3
\* and 15 for Q4..Q6, confidence = 1 - |llm - ta| / max_points, flags =
\* confidence < 0.5
sample_df ==
    Frame(<< Row("S001", "Q1", 62, 58, 100, 96, FALSE),
             Row("S001", "Q4", 120, 90, 150, 80, FALSE),
             Row("S002", "Q1", 60, 86, 100, 74, FALSE) >>)

\* the values the two sliders are moved to
SliderConfidenceRanges == { <<0, 100>>, <<60, 100>> }
SliderErrorThresholds == {100, 25}

\* sorted(processed_df['question_id'].unique()): the multiselect's options
all_questions(df) == Range(Column(df, "question_id"))

Init ==
    /\ uploaded_file = NoFile
    /\ data = None
    /\ processed_data = None
    /\ filters = DefaultFilters
    /\ question_filter = {}
    /\ confidence_filter = <<0, 100>>
    /\ error_filter = 100
    /\ view = None
    /\ metrics = NoMetrics
    /\ error_msg = NoError
    /\ pc = "idle"

\* a caller that stores the result of load_data without looking at it
LoadedUnchecked(df) == TRUE

\* if df is not None (the result of load_data)
Loaded(df) == ~df.none

\* a render_app that keeps the view and the metrics it computed for a
\* dataset for as long as the dataset is the same (cache keyed by the
\* dataset, not by the filter state)
render_app_cached(processed_df, session_filters) ==
    IF ~view.none /\ processed_df = processed_data
    THEN [arg |-> processed_df, df |-> view, metrics |-> metrics]
    ELSE [arg |-> apply_filters(processed_df, session_filters).arg,
          df |-> apply_filters(processed_df, session_filters).ret,
          metrics |-> calculate_metrics(apply_filters(processed_df, session_filters).ret)]

\* render_app: df and metrics are what the five tabs are rendered with, arg
\* is processed_df as the call leaves it
render_app(processed_df, session_filters) ==
    LET af == apply_filters(processed_df, session_filters)
    IN  [arg |-> af.arg, df |-> af.ret, metrics |-> calculate_metrics(af.ret)]

\* a sidebar that also narrows the students to those of the selected questions
render_sidebar_filters_with_students(processed_df, fs, qs, cr, et) ==
    [fs EXCEPT !.questions = qs,
               !.students = { r.student_id : r \in { x \in Range(processed_df.rows) :
                                                         x.question_id \in qs } },
               !.confidence_range = cr,
               !.error_threshold = et]

\* render_sidebar_filters writes the three widget values into
\* st.session_state.filters and touches no other key
render_sidebar_filters(processed_df, fs, qs, cr, et) ==
    [fs EXCEPT !.questions = qs,
               !.confidence_range = cr,
               !.error_threshold = et]

\* an upload handler that derives only while the session has no derived
\* dataset yet
store_upload_derive_once(df) ==
    [data |-> df,
     processed_data |-> IF processed_data.none THEN process_data(df).ret
                        ELSE processed_data]

\* st.session_state.data = df; st.session_state.processed_data =
\* process_data(df): data is df as process_data leaves it
store_upload(df) ==
    [data |-> process_data(df).arg, processed_data |-> process_data(df).ret]

\* One run of main.py.  uf, qsel, crange, ethr are the values the widgets
\* return in this run; reset and generate tell which button was clicked.
Run(uf, qsel, crange, ethr, reset, generate) ==
    LET ld == IF uf.isfile THEN load_data(uf) ELSE [df |-> None, error |-> NoError]
        loaded == uf.isfile /\ Loaded(ld.df)
        stored == store_upload(ld.df)
        data1 == IF loaded THEN stored.data ELSE data
        processed1 == IF loaded THEN stored.processed_data ELSE processed_data
    IN  /\ uploaded_file' = uf
        /\ error_msg' = ld.error
        /\ IF processed1.none
           THEN \* welcome screen: no filter widget is rendered
                /\ UNCHANGED <<filters, view, metrics>>
                /\ question_filter' = {}
                /\ confidence_filter' = <<0, 100>>
                /\ error_filter' = 100
                /\ IF generate
                   THEN LET sd == process_data(sample_df)
                        IN  /\ data' = sd.arg
                            /\ processed_data' = sd.ret
                            /\ pc' = "rerun"
                   ELSE /\ data' = data1
                        /\ processed_data' = processed1
                        /\ pc' = "idle"
           ELSE \* render_sidebar_filters, then render_app
                LET \* a multiselect whose options changed is a new widget
                    \* and returns its default
                    selected_questions ==
                        IF ~processed_data.none
                           /\ all_questions(processed_data) = all_questions(processed1)
                        THEN qsel ELSE {}
                    filters1 == render_sidebar_filters(processed1, filters,
                                                       selected_questions, crange, ethr)
                    app == render_app(processed1, filters1)
                IN  /\ data' = data1
                    /\ question_filter' = selected_questions
                    /\ confidence_filter' = crange
                    /\ error_filter' = ethr
                    /\ IF reset
                       THEN /\ filters' = DefaultFilters
                            /\ processed_data' = processed1
                            /\ UNCHANGED <<view, metrics>>
                            /\ pc' = "rerun"
                       ELSE /\ filters' = filters1
                            /\ processed_data' = app.arg
                            /\ view' = app.df
                            /\ metrics' = app.metrics
                            /\ pc' = "idle"

\* the user puts a file into the uploader
Upload(f) ==
    /\ pc = "idle"
    /\ Run(f, question_filter, confidence_filter, error_filter, FALSE, FALSE)

\* the user removes the file from the uploader
RemoveUpload ==
    /\ pc = "idle"
    /\ uploaded_file.isfile
    /\ Run(NoFile, question_filter, confidence_filter, error_filter, FALSE, FALSE)

\* the user changes the "Select Questions" multiselect
SelectQuestions(qs) ==
    /\ pc = "idle"
    /\ ~processed_data.none
    /\ qs \subseteq all_questions(processed_data)
    /\ qs # question_filter
    /\ Run(uploaded_file, qs, confidence_filter, error_filter, FALSE, FALSE)

\* the user moves the "Confidence Range" slider
SetConfidenceRange(cr) ==
    /\ pc = "idle"
    /\ ~processed_data.none
    /\ cr # confidence_filter
    /\ Run(uploaded_file, question_filter, cr, error_filter, FALSE, FALSE)

\* the user moves the "Max Error % to Display" slider
SetErrorThreshold(et) ==
    /\ pc = "idle"
    /\ ~processed_data.none
    /\ et # error_filter
    /\ Run(uploaded_file, question_filter, confidence_filter, et, FALSE, FALSE)

\* the user clicks "Reset Filters": the run ends in st.rerun()
ResetFilters ==
    /\ pc = "idle"
    /\ ~processed_data.none
    /\ Run(uploaded_file, question_filter, confidence_filter, error_filter, TRUE, FALSE)

\* the user clicks "Generate Sample Data" on the welcome screen: the run
\* ends in st.rerun()
GenerateSample ==
    /\ pc = "idle"
    /\ processed_data.none
    /\ Run(uploaded_file, question_filter, confidence_filter, error_filter, FALSE, TRUE)

\* the run that st.rerun() starts: no widget changed, no button clicked
Rerun ==
    /\ pc = "rerun"
    /\ Run(uploaded_file, question_filter, confidence_filter, error_filter, FALSE, FALSE)

Next ==
    \/ \E f \in SessionFiles : Upload(f)
    \/ RemoveUpload
    \/ \E qs \in SUBSET (Questions \cup {"Q4"}) : SelectQuestions(qs)
    \/ \E cr \in SliderConfidenceRanges : SetConfidenceRange(cr)
    \/ \E et \in SliderErrorThresholds : SetErrorThreshold(et)
    \/ ResetFilters
    \/ GenerateSample
    \/ Rerun

Spec == Init /\ [][Next]_vars

----------------------------------------------------------------------------
(* Properties *)

DerivedCols ==
    {"error", "abs_error", "percent_error", "normalized_ta", "normalized_llm", "auto_flag"}

Derived == pc \in {"derived", "filtered", "summarized"}
Filtered == pc \in {"filtered", "summarized"}
Summarized == pc = "summarized"

SatisfiesAll(r, f) ==
    /\ (f.questions # {} => r.question_id \in f.questions)
    /\ (f.students # {} => r.student_id \in f.students)
    /\ f.confidence_range[1] <= r.confidence
    /\ r.confidence <= f.confidence_range[2]
    /\ r.percent_error # NaN
    /\ r.percent_error <= 100 * f.error_threshold

\* C2 (PipelineSpec): apply_filters returns exactly the records that satisfy
\* all four predicates, in their original relative order.
C2_FilterExactSubsequence ==
    Filtered =>
        /\ ~view.none
        /\ view.rows = SelectSeq(processed_data.rows, LAMBDA r : SatisfiesAll(r, filters))

\* a filtered view that kept some rows and dropped others
C2_Witness ==
    /\ Filtered
    /\ filters.questions # {}
    /\ filters.students # {}
    /\ Len(view.rows) >= 1
    /\ Len(view.rows) < Len(processed_data.rows)

\* C3 (Spec): a run of the app that leaves the raw dataset as it is leaves
\* the derived dataset of the session as it is, whatever the filters select.
C3_FilterNeverMutatesDerived ==
    [][(~processed_data.none /\ data' = data) => processed_data' = processed_data]_vars

\* a rendered view from which the filters removed rows of the derived dataset
C3_Witness ==
    /\ pc = "idle"
    /\ ~view.none
    /\ filters # DefaultFilters
    /\ Len(view.rows) < Len(processed_data.rows)

\* C4 as stated (PipelineSpec): under the default filter state the view is
\* the derived collection without the records whose percent_error > 100.
C4_DefaultFilterDropsOnlyOver100 ==
    (Filtered /\ filters = DefaultFilters) =>
        view.rows = SelectSeq(processed_data.rows,
                              LAMBDA r : ~(r.percent_error # NaN /\ r.percent_error > 10000))

\* C4 amended (PipelineSpec): under the default filter state the view is the
\* derived collection without the records whose percent_error > 100 or NaN
\* and without the records whose confidence is outside [0, 1].
C4_DefaultFilterAmended ==
    (Filtered /\ filters = DefaultFilters) =>
        view.rows = SelectSeq(processed_data.rows,
                              LAMBDA r : /\ r.percent_error # NaN
                                         /\ r.percent_error <= 10000
                                         /\ r.confidence >= 0
                                         /\ r.confidence <= 100)

\* the default filter state applied to a table of which it keeps a row,
\* drops a row over 100 % and drops a row with confidence above 1
C4_Witness ==
    /\ Filtered
    /\ filters = DefaultFilters
    /\ Len(view.rows) >= 1
    /\ \E i \in DOMAIN processed_data.rows : processed_data.rows[i].percent_error = 11000
    /\ \E i \in DOMAIN processed_data.rows : processed_data.rows[i].confidence > 100

\* the claim's condition for an undefined correlation, on the summarized view
TooFewOrConstant ==
    \/ Len(view.rows) < 2
    \/ Cardinality({view.rows[i].ta_score : i \in DOMAIN view.rows}) = 1
    \/ Cardinality({view.rows[i].llm_score : i \in DOMAIN view.rows}) = 1

CorrKeys == {"pearson_r", "pearson_p", "spearman_r", "spearman_p"}

\* C5 (PipelineSpec): the four correlation values are NaN, and nothing is
\* raised, when the collection has fewer than 2 records or a score column
\* has a single distinct value; otherwise they are computed from the two
\* score columns (with non-zero variances, hence not NaN).
C5_CorrelationNaNIffDegenerate ==
    Summarized =>
        /\ TooFewOrConstant =>
              /\ ~metrics.raised
              /\ \A k \in CorrKeys : metrics[k].nan
        /\ ~TooFewOrConstant =>
              /\ \A k \in CorrKeys : ~metrics[k].nan /\ metrics[k].varx > 0 /\ metrics[k].vary > 0
              /\ metrics.pearson_r = CorrStat(Column(view, "ta_score"), Column(view, "llm_score"))
              /\ metrics.spearman_r = CorrStat(Rank2(Column(view, "ta_score")),
                                               Rank2(Column(view, "llm_score")))

\* a summarized view of two or more records whose ta_score varies and whose
\* llm_score is constant: the correlations are NaN
C5_Witness ==
    /\ Summarized
    /\ Len(view.rows) >= 2
    /\ Cardinality({view.rows[i].ta_score : i \in DOMAIN view.rows}) > 1
    /\ Cardinality({view.rows[i].llm_score : i \in DOMAIN view.rows}) = 1
    /\ metrics.pearson_r.nan

\* C6 (PipelineSpec): flagged_percent is 0 (a number) for an empty
\* collection and flagged_count / total_items * 100 otherwise, flagged_count
\* being the number of records with auto_flag true.
C6_FlaggedPercent ==
    Summarized =>
        LET n == Len(view.rows)
            flagged == Cardinality({i \in DOMAIN view.rows : view.rows[i].auto_flag})
            fp == metrics.flagged_percent
        IN  /\ metrics.flagged_count = flagged
            /\ fp.den # 0
            /\ n = 0 => fp.num = 0
            /\ n > 0 => fp.num * n = flagged * 100 * fp.den

\* the summary of an empty view of a table that has flagged records
C6_Witness ==
    /\ Summarized
    /\ view.rows = <<>>
    /\ \E i \in DOMAIN processed_data.rows : processed_data.rows[i].auto_flag
    /\ metrics.flagged_percent.num = 0

MetricKeys ==
    {"total_items", "total_students", "total_questions", "mae", "rmse", "mape",
     "max_error", "pearson_r", "pearson_p", "spearman_r", "spearman_p",
     "mean_bias", "std_error", "flagged_count", "flagged_percent"}

\* C7 (PipelineSpec): calculate_metrics raises for no collection and returns
\* every key of the summary; on an empty collection the means, the maximum
\* and the deviation are NaN, and the correlations are NaN whenever they are
\* undefined.
C7_SummarizeNeverFails ==
    Summarized =>
        /\ ~metrics.none
        /\ ~metrics.raised
        /\ MetricKeys \subseteq DOMAIN metrics
        /\ view.rows = <<>> =>
              /\ \A k \in {"mae", "rmse", "max_error", "mean_bias", "std_error", "mape"} :
                    metrics[k].den = 0
              /\ metrics.total_items = 0
        /\ TooFewOrConstant => \A k \in CorrKeys : metrics[k].nan

\* the summary of a single-record view
C7_Witness ==
    /\ Summarized
    /\ Len(view.rows) = 1
    /\ metrics.total_items = 1
    /\ metrics.pearson_r.nan

\* the required fields the uploaded file lacks
MissingRequired == Range(REQUIRED_COLS) \ uploaded_file.columns

\* C8 (PipelineSpec): when a required field is absent, load_data fails with
\* the missing-columns error, whose message lists exactly the missing
\* required fields, and returns no dataset.
C8_SchemaErrorNamesMissing ==
    (pc # "start" /\ uploaded_file.readable /\ MissingRequired # {}) =>
        /\ pc = "failed"
        /\ data.none
        /\ processed_data.none
        /\ error_msg.kind = "Missing required columns"
        /\ Range(error_msg.missing) = MissingRequired
        /\ Len(error_msg.missing) = Cardinality(MissingRequired)

\* a failed load of a file that lacks two or more required fields and has
\* an optional one
C8_Witness ==
    /\ pc = "failed"
    /\ uploaded_file.readable
    /\ Cardinality(MissingRequired) >= 2
    /\ "confidence" \in uploaded_file.columns
    /\ Len(error_msg.missing) >= 2

\* C9 (Spec): a run in which a new file is put into the uploader and its
\* load fails leaves data and processed_data as they were, and the dataset
\* loaded before, if any, is the one that is filtered and summarized.
C9_FailedUploadKeepsSession ==
    [][(/\ uploaded_file' # uploaded_file
        /\ uploaded_file'.isfile
        /\ error_msg'.kind # "none")
       => (/\ data' = data
           /\ processed_data' = processed_data
           /\ ~processed_data.none =>
                 /\ view' = apply_filters(processed_data, filters').ret
                 /\ metrics' = calculate_metrics(view')
           /\ processed_data.none => view'.none)]_vars

\* the session after a failed upload that came after a successful one
C9_Witness ==
    /\ pc = "idle"
    /\ uploaded_file.isfile
    /\ error_msg.kind # "none"
    /\ ~data.none
    /\ Len(processed_data.rows) >= 1
    /\ ~view.none

\* C10 (PipelineSpec): process_data returns as many records as it is given,
\* in the same order, every input field unchanged, the derived fields added,
\* and leaves the collection passed to it as load_data returned it.
C10_DerivePreservesInput ==
    Derived =>
        /\ data = load_data(uploaded_file).df
        /\ Len(processed_data.rows) = Len(data.rows)
        /\ \A i \in DOMAIN data.rows :
              /\ DOMAIN data.rows[i] = AllCols
              /\ DOMAIN processed_data.rows[i] = AllCols \cup DerivedCols
              /\ \A c \in AllCols : processed_data.rows[i][c] = data.rows[i][c]

\* a derived table of three pairwise different rows
C10_Witness ==
    /\ pc = "derived"
    /\ Len(processed_data.rows) = 3
    /\ processed_data.rows[1] # processed_data.rows[2]
    /\ processed_data.rows[2] # processed_data.rows[3]
    /\ processed_data.rows[1] # processed_data.rows[3]

\* C11 (PipelineSpec): for every record with max_points > 0, error is
\* llm_score - ta_score, abs_error is |error| (so >= 0) and percent_error is
\* abs_error / max_points * 100 rounded to the nearest hundredth; ta = 8,
\* llm = 8, max = 10 gives 0, 0, 0.0 and ta = 8, llm = 5, max = 10 gives
\* -3, 3, 30.0.
C11_DerivedFieldValues ==
    \A i \in DOMAIN processed_data.rows :
        LET r == processed_data.rows[i]
        IN  r.max_points > 0 =>
              /\ r.error = r.llm_score - r.ta_score
              /\ r.abs_error >= 0
              /\ r.abs_error \in {r.error, 0 - r.error}
              \* |percent_error - abs_error / max_points * 100| <= 0.005
              /\ 2 * (r.percent_error * r.max_points - 10000 * r.abs_error) <= r.max_points
              /\ 2 * (10000 * r.abs_error - r.percent_error * r.max_points) <= r.max_points
              /\ (r.ta_score = 80 /\ r.llm_score = 80 /\ r.max_points = 100) =>
                    (r.error = 0 /\ r.abs_error = 0 /\ r.percent_error = 0)
              /\ (r.ta_score = 80 /\ r.llm_score = 50 /\ r.max_points = 100) =>
                    (r.error = -30 /\ r.abs_error = 30 /\ r.percent_error = 3000)

\* a derived record whose percentage 66.666... is rounded up to 66.67
C11_Witness ==
    /\ Derived
    /\ \E i \in DOMAIN processed_data.rows :
        LET r == processed_data.rows[i]
        IN  r.max_points = 30 /\ r.abs_error = 20 /\ r.percent_error = 6667

\* the llm_score values a second record is given
LlmScores == { t[2] : t \in ScoreTriples }

\* the raw fields of a derived row
RawRow(r) == [c \in AllCols |-> r[c]]

\* C12 (PipelineSpec): of two records with the same ta_score, max_points > 0
\* and confidence, if the first is flagged and the second has an absolute
\* error at least as large, the second is flagged.
C12_FlagMonotone ==
    \A i \in DOMAIN processed_data.rows : \A l \in LlmScores :
        LET first == processed_data.rows[i]
            second == DeriveRow([RawRow(first) EXCEPT !.llm_score = l])
        IN  (first.max_points > 0 /\ first.auto_flag
             /\ second.abs_error >= first.abs_error) => second.auto_flag

\* a record flagged by its error alone (confidence not below the threshold),
\* and a second one with a larger error, below and above ta_score
C12_Witness ==
    /\ Derived
    /\ \E i \in DOMAIN processed_data.rows : \E l \in LlmScores :
        LET first == processed_data.rows[i]
            second == DeriveRow([RawRow(first) EXCEPT !.llm_score = l])
        IN  /\ first.max_points > 0 /\ first.auto_flag /\ first.confidence >= 60
            /\ first.error < 0 /\ second.error > 0
            /\ second.abs_error > first.abs_error
            /\ second.auto_flag

\* C14 (PipelineSpec): total_items is the number of records, total_students
\* and total_questions are the numbers of distinct student_id and
\* question_id values of the collection summarized; a view filtered with
\* questions = ['Q1'] that is not empty has total_questions = 1.
C14_Totals ==
    Summarized =>
        /\ metrics.total_items = Len(view.rows)
        /\ metrics.total_students =
              Cardinality({view.rows[i].student_id : i \in DOMAIN view.rows})
        /\ metrics.total_questions =
              Cardinality({view.rows[i].question_id : i \in DOMAIN view.rows})
        /\ (filters.questions = {"Q1"} /\ view.rows # <<>>) => metrics.total_questions = 1

\* the summary of a view filtered by questions = ['Q1'] that keeps two Q1
\* records of one student out of a table that also has a Q2 record
C14_Witness ==
    /\ Summarized
    /\ filters.questions = {"Q1"}
    /\ \E i \in DOMAIN processed_data.rows : processed_data.rows[i].question_id = "Q2"
    /\ Len(view.rows) = 2
    /\ metrics.total_students = 1
    /\ metrics.total_questions = 1

\* C15 (PipelineSpec): the summary returned by calculate_metrics has a
\* per-question breakdown: for each distinct question_id of the collection
\* the mean abs_error, the mean confidence and the sum of auto_flag over the
\* records of that question.
C15_PerQuestionBreakdown ==
    Summarized =>
        /\ "question_performance" \in DOMAIN metrics
        /\ LET qp == metrics.question_performance
               qs == {view.rows[i].question_id : i \in DOMAIN view.rows}
               of(q) == SelectSeq(view.rows, LAMBDA r : r.question_id = q)
           IN  /\ DOMAIN qp.abs_error = qs
               /\ \A q \in qs :
                     /\ qp.abs_error[q].den = Len(of(q))
                     /\ qp.abs_error[q].num = Sum([i \in DOMAIN of(q) |-> of(q)[i].abs_error])
                     /\ qp.confidence[q].den = Len(of(q))
                     /\ qp.confidence[q].num = Sum([i \in DOMAIN of(q) |-> of(q)[i].confidence])
                     /\ qp.auto_flag[q] =
                           Cardinality({i \in DOMAIN of(q) : of(q)[i].auto_flag})

\* C16 (PipelineSpec): a loaded table has confidence = 1.0 in every row when
\* the file has no confidence column and flags = false in every row when it
\* has no flags column; the values of a column that is present, optional or
\* required, are those of the file.
C16_OptionalDefaults ==
    pc \in {"loaded", "derived", "filtered", "summarized"} =>
        /\ Len(data.rows) = Len(uploaded_file.rows)
        /\ \A i \in DOMAIN data.rows :
              /\ DOMAIN data.rows[i] = uploaded_file.columns \cup {"confidence", "flags"}
              /\ "confidence" \notin uploaded_file.columns => data.rows[i].confidence = 100
              /\ "flags" \notin uploaded_file.columns => data.rows[i].flags = FALSE
              /\ \A c \in uploaded_file.columns : data.rows[i][c] = uploaded_file.rows[i][c]

\* a loaded file that has a flags column with a true value and no
\* confidence column
C16_Witness ==
    /\ pc = "loaded"
    /\ "confidence" \notin uploaded_file.columns
    /\ "flags" \in uploaded_file.columns
    /\ Len(data.rows) = 1
    /\ data.rows[1].confidence = 100
    /\ data.rows[1].flags = TRUE

\* the state in which the run of a "Reset Filters" click has ended in
\* st.rerun(): a view is on the screen and the rerun is pending (the rerun
\* after "Generate Sample Data" starts from the welcome screen, without view)
ResetPressed == pc = "rerun" /\ ~view.none

\* C17 (Spec): after Reset Filters is pressed the filter state is the default
\* one, and the run that follows leaves it so and renders the view that
\* apply_filters computes under the default state.
C17_ResetRendersDefaultView ==
    [][ResetPressed =>
          /\ filters = DefaultFilters
          /\ filters' = DefaultFilters
          /\ view' = apply_filters(processed_data', DefaultFilters).ret]_vars

\* a table without its flags column
WithoutFlags(df) ==
    [i \in DOMAIN df.rows |-> [c \in (DOMAIN df.rows[i]) \ {"flags"} |-> df.rows[i][c]]]

C19_ReviewQueueCriteria ==
    Filtered =>
        \A i \in DOMAIN view.rows :
            LET r == view.rows[i]
            IN  (\/ r.confidence < 60
                 \/ r.percent_error # NaN /\ r.percent_error > 2500
                 \/ 10 * r.abs_error > 3 * r.max_points
                 \/ r.flags = TRUE)
                => r \in Range(review_queue(view).rows)

\* C20 (Spec): after every run that renders the tabs, the filter state is the
\* one the sidebar widgets returned in that run, the view handed to the tabs
\* is apply_filters of the session's derived dataset under it, and the
\* metrics are calculate_metrics of that view.
C20_ViewAndMetricsCurrent ==
    (pc = "idle" /\ ~processed_data.none) =>
        /\ filters.questions = question_filter
        /\ filters.confidence_range = confidence_filter
        /\ filters.error_threshold = error_filter
        /\ view = apply_filters(processed_data, filters).ret
        /\ metrics = calculate_metrics(view)

\* the tabs rendered under a question selection and a moved slider that
\* together keep one record of several
C20_Witness ==
    /\ pc = "idle"
    /\ question_filter # {}
    /\ confidence_filter # <<0, 100>>
    /\ Len(processed_data.rows) >= 2
    /\ Len(view.rows) = 1
    /\ metrics.total_items = 1

\* the orders in which the four selections can be applied
StepOrders == { o \in [1..4 -> 1..4] : \A i, j \in 1..4 : i # j => o[i] # o[j] }

\* C21 (PipelineSpec): the four selections of apply_filters give the view
\* that apply_filters returns in whichever order they are applied, and
\* applying the same filter state to the view again returns the view.
C21_FilterOrderIrrelevant ==
    Filtered =>
        /\ \A o \in StepOrders : FilterSteps(o, processed_data.rows, filters) = view.rows
        /\ apply_filters(view, filters).ret = view

\* a view from which the questions selection alone dropped one row, the
\* confidence selection alone another, and which kept a third
C21_Witness ==
    /\ Filtered
    /\ Len(view.rows) >= 1
    /\ \E i, j \in DOMAIN processed_data.rows :
          /\ ~KeepQuestion(processed_data.rows[i], filters)
          /\ KeepConfidence(processed_data.rows[i], filters)
          /\ KeepError(processed_data.rows[i], filters)
          /\ KeepQuestion(processed_data.rows[j], filters)
          /\ ~KeepConfidence(processed_data.rows[j], filters)

C23_StudentsNeverRestrict ==
    /\ filters.students = {}
    /\ (pc = "idle" /\ ~processed_data.none) =>
           view.rows = SelectSeq(processed_data.rows,
                                 LAMBDA r : /\ KeepQuestion(r, filters)
                                            /\ KeepConfidence(r, filters)
                                            /\ KeepError(r, filters))

\* a rendered view with a question selected that holds records of two students
C23_Witness ==
    /\ pc = "idle"
    /\ ~processed_data.none
    /\ filters.questions # {}
    /\ \E i, j \in DOMAIN view.rows : view.rows[i].student_id # view.rows[j].student_id

\* C24 (PipelineSpec): for every derived record with max_points > 0,
\* abs_error > 0.3 * max_points implies percent_error > 25, and auto_flag
\* is true if and only if confidence < 0.6 or percent_error > 25.
C24_AbsErrorConditionSubsumed ==
    Derived =>
        \A i \in DOMAIN processed_data.rows :
            LET r == processed_data.rows[i]
            IN  r.max_points > 0 =>
                    /\ (r.abs_error * 10 > r.max_points * 3
                            => FGt(r.percent_error, 2500))
                    /\ r.auto_flag <=> (r.confidence < 60 \/ FGt(r.percent_error, 2500))

\* a record with confidence not below 0.6 and no manual flag whose absolute
\* error is above 0.3 * max_points
C24_Witness ==
    /\ Derived
    /\ \E i \in DOMAIN processed_data.rows :
        LET r == processed_data.rows[i]
        IN  /\ r.max_points > 0 /\ r.confidence >= 60 /\ ~r.flags
            /\ r.abs_error * 10 > r.max_points * 3
            /\ r.percent_error = 6667
            /\ r.auto_flag

\* C25 (PipelineSpec): for every loaded table and every filter state,
\* process_data of app.py returns the derived records process_data of
\* data_service.py returns, and apply_filters of app.py returns the view
\* apply_filters of data_service.py returns.
C25_LegacyAgreesWithServices ==
    /\ Derived => legacy_process_data(data).ret = processed_data
    /\ Filtered => /\ legacy_apply_filters(processed_data, filters).ret = view
                   /\ legacy_apply_filters(legacy_process_data(data).ret, filters).ret = view

\* a view that lost a record to a student selection and kept a flagged record
\* with confidence below 0.6
C25_Witness ==
    /\ Filtered
    /\ filters.students # {}
    /\ Len(view.rows) >= 1
    /\ Len(view.rows) < Len(processed_data.rows)
    /\ \E i \in DOMAIN processed_data.rows :
           processed_data.rows[i].student_id \notin filters.students
    /\ \E i \in DOMAIN view.rows :
           /\ view.rows[i].auto_flag
           /\ view.rows[i].confidence = 50

====
